---- MODULE Spec2Model ----
(***************************************************************************)
(* Model of benchmark/benchmark_suit.py: AutoBenchmarkRunner and main().   *)
(*                                                                         *)
(* main() collects config files, then loops: read_json() loads one config, *)
(* the random seeds are set, BenchmarkRunner.run() drives `concurrency`    *)
(* worker() coroutines over a bounded asyncio.Queue, the statistics are    *)
(* computed from REQUEST_LATENCY and written.                              *)
(*                                                                         *)
(* The coroutines run on one event loop: a step of a worker is everything  *)
(* it executes between two suspension points (an empty queue.get() and the *)
(* network wait inside send_request()).                                    *)
(***************************************************************************)
EXTENDS Integers, Sequences, FiniteSets

\* ------------------------------------------------------------------ bounds
\* Most config files a folder holds.
MaxConfigs == 2
\* Largest num_prompt a config file asks for.
MaxPrompts == 2
\* Largest configured concurrency: one above MaxPrompts, so that a config can
\* ask for more workers than it has requests.
MaxConcurrency == MaxPrompts + 1
\* Iterations of the infinite benchmark that are explored.
MaxRuns == MaxConfigs
\* Longest REQUEST_LATENCY that is explored, the observations of two runs of
\* MaxPrompts requests: the log is never emptied.
MaxObservations == 2 * MaxPrompts
\* Largest prompt length and output length of a request of the dataset.
MaxLen == 1
\* Largest elapsed time of a run, in clock ticks.
MaxTime == 1

\* --------------------------------------------------------- program constants
\* asyncio.Queue(self.concurrency or 100)
DefaultQueueSize == 100

\* ------------------------------------------------------------------- state
VARIABLES
    args,             \* argparse.Namespace: inf, file, folder
    disk,             \* the files the arguments name: file id -> kind
    pc,               \* position of main()
    configs,          \* self.configs
    json_filename,    \* self.json_filename, <<>> while None
    data,             \* read_json: the decoded file (num_prompt, concurrency)
    num_prompts,      \* self.num_prompts
    concurrency,      \* self.concurrency
    input_requests,   \* self.input_requests
    left,             \* self.left
    queue,            \* self.queue (its items)
    maxsize,          \* self.queue.maxsize
    sent,             \* run(): requests put on the queue so far
    tasks,            \* run(): the worker tasks, worker -> [pc, req]
    REQUEST_LATENCY,  \* self.REQUEST_LATENCY
    run_no,           \* number of read_json() calls so far
    loaded,           \* history: the file of every read_json() call, in order
    dispatched,       \* history: requests handed to send_request, this run
    results,          \* history: number of write_result() calls
    dataset,          \* the (prompt_len, output_len) of the requests of the dataset
    clock,            \* the elapsed times time.time() can measure
    request_lens,     \* prompt_len and output_len of every input request
    benchmark_time,   \* main: benchmark_time
    stats,            \* the five statistics of self
    error,            \* the exception that ended main, <<>> while none
    steps             \* history: the steps of the current run, in order

vars == <<args, disk, pc, configs, json_filename, data, num_prompts, concurrency,
          input_requests, left, queue, maxsize, sent, tasks, REQUEST_LATENCY,
          run_no, loaded, dispatched, results, dataset, clock, request_lens,
          benchmark_time, stats, error, steps>>

cfgVars == <<data, num_prompts, concurrency, input_requests, left, queue, maxsize>>
runVars == <<sent, tasks, dispatched>>
envVars == <<dataset, clock>>
aggVars == <<benchmark_time, stats, error>>

\* ----------------------------------------------------------------- helpers
Min(a, b) == IF a < b THEN a ELSE b

Range(s) == {s[i] : i \in DOMAIN s}

\* The file given with --file is file 0; a folder holds files 1..k.
FileArg == 0
Kinds == {"good", "bad", "other"}

\* file_name.endswith('.json')
EndsWithJson(f) == disk[f] # "other"

\* A file that open()/json.load() or the decoding of its fields rejects.
LoadRaises(f) == disk[f] = "bad"

\* os.walk(self.folder): the files of the folder, in the order walked.
Walk(k) == [i \in 1..k |-> i]

\* traverse_json_configs: append every *.json file of the folder.
TraverseJsonConfigs(cfgs, walk) ==
    cfgs \o SelectSeq(walk, EndsWithJson)

\* read_file: append the file when it is named *.json.
ReadFile(cfgs, f) ==
    IF EndsWithJson(f) THEN Append(cfgs, f) ELSE cfgs

\* CollectConfigs walking the folder whenever one is given, with --file or not.
CollectConfigsFolderFirst(cfgs) ==
    IF args.folder # <<>>
    THEN TraverseJsonConfigs(cfgs, args.folder[1])
    ELSE IF args.file # <<>>
    THEN ReadFile(cfgs, args.file[1])
    ELSE cfgs

\* main: the configs the arguments select; none when both or neither of
\* --file and --folder are given.
CollectConfigs(cfgs) ==
    IF args.file = <<>> /\ args.folder # <<>>
    THEN TraverseJsonConfigs(cfgs, args.folder[1])
    ELSE IF args.file # <<>> /\ args.folder = <<>>
    THEN ReadFile(cfgs, args.file[1])
    ELSE cfgs

\* NextFilename taking the last config in the infinite benchmark too.
NextFilenameLast(inf, cfgs) == cfgs[Len(cfgs)]

\* read_json: the file to load, configs[0] when infinite, else the popped one.
NextFilename(inf, cfgs) ==
    IF inf THEN cfgs[1] ELSE cfgs[Len(cfgs)]

\* RemainingConfigs removing the first config where read_json reads the last.
RemainingConfigsFront(inf, cfgs) ==
    IF inf THEN cfgs ELSE Tail(cfgs)

\* RemainingConfigs popping in the infinite benchmark too.
RemainingConfigsPop(inf, cfgs) ==
    SubSeq(cfgs, 1, Len(cfgs) - 1)

\* read_json: self.configs after the choice ("Never Pop() for infinite").
RemainingConfigs(inf, cfgs) ==
    IF inf THEN cfgs ELSE SubSeq(cfgs, 1, Len(cfgs) - 1)

\* sample_requests(dataset, num_prompts, tokenizer): num_prompts requests,
\* request i of the sequence is named i - 1.
SampleRequests(n) == [i \in 1..n |-> i - 1]

\* FixConcurrency with the comparison turned round (the larger of the two).
FixConcurrencyMax(conc, np) ==
    IF conc < np THEN np ELSE conc

\* FixConcurrency without the fix.
FixConcurrencyNone(conc, np) == conc

\* "Fix Concurrency"
FixConcurrency(conc, np) ==
    IF conc > np THEN np ELSE conc

\* QueueMaxsize ignoring the concurrency.
QueueMaxsizeDefault(conc) == DefaultQueueSize

\* asyncio.Queue(self.concurrency or 100)
QueueMaxsize(conc) ==
    IF conc # 0 THEN conc ELSE DefaultQueueSize

\* WhileLeft leaving the loop one request early.
WhileLeftOne(l) == l > 1

\* WhileLeft going round once more when nothing is left.
WhileLeftZero(l) == l >= 0

\* worker: while self.left > 0
WhileLeft(l) == l > 0

\* Decrement losing the update.
DecrementLost(l) == l

\* worker: self.left -= 1
Decrement(l) == l - 1

\* QueueItem of a last-in-first-out queue.
QueueItemLast(q) == q[Len(q)]

\* worker: queue.get() returns the first item of the queue.
QueueItem(q) == Head(q)

\* QueueAfterGet reading the first item without removing it.
QueueAfterGetPeek(q) == q

\* worker: queue.get() leaves the queue without its first item.
QueueAfterGet(q) == Tail(q)

\* send_request appends one observation of the request to REQUEST_LATENCY: its
\* prompt_len, its output_len and the latency, one clock tick for every
\* request; run and req name the run and the request the observation is of.
Observation(req) ==
    [run |-> run_no, req |-> req,
     prompt_len |-> request_lens[req + 1].prompt_len,
     output_len |-> request_lens[req + 1].output_len,
     latency |-> 1]

Idle(p) == [pc |-> p, req |-> 0]

\* None, the value of a field that is not set.
None == <<>>

UnitDataset == {[prompt_len |-> 1, output_len |-> 1]}

\* ------------------------------------------------------------ the statistics
\* A quotient is the pair <<numerator, denominator>>; Raised is a division
\* that raised ZeroDivisionError.
Raised == <<>>

\* Divide returning infinity (a zero denominator) where Python raises.
DivideInf(a, b) == <<a, b>>

\* a / b of Python numbers.
Divide(a, b) == IF b = 0 THEN Raised ELSE <<a, b>>

AnyRaised(seq) == \E i \in DOMAIN seq : seq[i] = Raised

RECURSIVE SumOf(_)
SumOf(seq) == IF seq = <<>> THEN 0 ELSE Head(seq) + SumOf(Tail(seq))

RECURSIVE FracSum(_)
FracSum(seq) ==
    IF seq = <<>> THEN <<0, 1>>
    ELSE LET h == Head(seq)
             r == FracSum(Tail(seq))
         IN  <<h[1] * r[2] + r[1] * h[2], h[2] * r[2]>>

\* np.mean of a list of quotients.
Mean(seq) == LET t == FracSum(seq) IN <<t[1], t[2] * Len(seq)>>

\* sum([output_len for _, output_len, _ in REQUEST_LATENCY])
SumOutputLen(log) == SumOf([i \in DOMAIN log |-> log[i].output_len])

\* [latency for _, _, latency in REQUEST_LATENCY]
Latencies(log) == [i \in DOMAIN log |-> <<log[i].latency, 1>>]

\* [latency / (prompt_len + output_len) for ... in REQUEST_LATENCY]
PerTokenLatencies(log) ==
    [i \in DOMAIN log |->
        Divide(log[i].latency, log[i].prompt_len + log[i].output_len)]

\* [latency / output_len for _, output_len, latency in REQUEST_LATENCY]
PerOutputTokenLatencies(log) ==
    [i \in DOMAIN log |-> Divide(log[i].latency, log[i].output_len)]
Workers == DOMAIN tasks
InFlight == {w \in Workers : tasks[w].pc = "exec"}

\* -------------------------------------------------------------------- Init
InitArgs ==
    /\ \E inf \in BOOLEAN, file \in {<<>>, <<FileArg>>},
          folder \in {<<>>} \cup {<<Walk(k)>> : k \in 0..MaxConfigs} :
          args = [inf |-> inf, file |-> file, folder |-> folder]
    /\ LET ids == Range(args.file) \cup
                  (IF args.folder = <<>> THEN {} ELSE Range(args.folder[1]))
       IN  disk \in [ids -> Kinds]
    /\ pc = "start"
    /\ configs = <<>>
    /\ json_filename = args.file
    /\ data = [num_prompt |-> 0, concurrency |-> 0]
    /\ num_prompts = 0
    /\ concurrency = 0
    /\ input_requests = <<>>
    /\ left = 0
    /\ queue = <<>>
    /\ maxsize = 0
    /\ sent = 0
    /\ tasks = <<>>
    /\ REQUEST_LATENCY = <<>>
    /\ run_no = 0
    /\ loaded = <<>>
    /\ dispatched = <<>>
    /\ results = 0
    /\ request_lens = <<>>
    /\ benchmark_time = 0
    /\ stats = [throughput_request |-> None, throughput_token |-> None,
                avg_latency |-> None, avg_per_token_latency |-> None,
                avg_per_output_token_latency |-> None]
    /\ error = <<>>
    /\ steps = <<>>

\* A dataset whose requests all have one prompt token and one output token,
\* and runs that take no time or one clock tick.
Init ==
    /\ InitArgs
    /\ dataset = UnitDataset
    /\ clock = {0, 1}

\* One run of one config file (--file without --inf) over a dataset with every
\* prompt length and output length up to MaxLen, zero included, and every
\* elapsed time up to MaxTime.
InitData ==
    /\ InitArgs
    /\ args.folder = <<>>
    /\ ~args.inf
    /\ dataset = [prompt_len : 0..MaxLen, output_len : 0..MaxLen]
    /\ clock = 0..MaxTime

\* ------------------------------------------------------------------ main()
\* main: the argument dispatch before the loop.
MainArgs ==
    /\ pc = "start"
    /\ configs' = CollectConfigs(configs)
    /\ pc' = "loop"
    /\ UNCHANGED <<args, disk, json_filename, cfgVars, runVars,
                   REQUEST_LATENCY, run_no, loaded, results>>
    /\ UNCHANGED <<envVars, request_lens, aggVars, steps>>

\* main: while benchmark.configs != [] is false, main returns.
MainExit ==
    /\ pc = "loop"
    /\ configs = <<>>
    /\ pc' = "exit"
    /\ UNCHANGED <<args, disk, configs, json_filename, cfgVars, runVars,
                   REQUEST_LATENCY, run_no, loaded, results>>
    /\ UNCHANGED <<envVars, request_lens, aggVars, steps>>

\* The part of the behaviours that is explored: MaxRuns iterations of the
\* infinite benchmark, and runs that start with room left in the log.
Explored ==
    /\ args.inf => run_no < MaxRuns
    /\ Len(REQUEST_LATENCY) < MaxObservations

\* read_json, called by the loop of main. A file that cannot be loaded raises
\* out of read_json and out of main: from open()/json.load() before any field
\* is assigned, or from get_tokenizer()/sample_requests() on a missing field,
\* after the fields are assigned and before the concurrency is fixed.
ReadJson ==
    /\ pc = "loop"
    /\ configs # <<>>
    /\ Explored
    /\ LET f == NextFilename(args.inf, configs) IN
       /\ json_filename' = <<f>>
       /\ configs' = RemainingConfigs(args.inf, configs)
       /\ loaded' = Append(loaded, f)
       /\ run_no' = run_no + 1
       /\ IF LoadRaises(f)
          THEN /\ pc' = "crashed"
               /\ error' = <<"ConfigError">>
               /\ steps' = <<>>
               /\ request_lens' = request_lens
               /\ \/ UNCHANGED cfgVars
                  \/ /\ \E np \in 1..MaxPrompts, conc \in 1..MaxConcurrency :
                          /\ data' = [num_prompt |-> np, concurrency |-> conc]
                          /\ num_prompts' = np
                          /\ concurrency' = conc
                     /\ UNCHANGED <<input_requests, left, queue, maxsize>>
          ELSE /\ error' = error
               /\ steps' = <<"sample">>
               /\ \E np \in 1..MaxPrompts, conc \in 1..MaxConcurrency :
                    /\ Len(REQUEST_LATENCY) + np <= MaxObservations
                    /\ data' = [num_prompt |-> np, concurrency |-> conc]
                    /\ num_prompts' = np
                    /\ request_lens' \in [1..np -> dataset]
                    /\ input_requests' = SampleRequests(np)
                    /\ left' = Len(SampleRequests(np))
                    /\ concurrency' = FixConcurrency(conc, np)
                    /\ maxsize' = QueueMaxsize(FixConcurrency(conc, np))
               /\ queue' = <<>>
               /\ pc' = "seed"
    /\ UNCHANGED <<args, disk, runVars, REQUEST_LATENCY, results>>
    /\ UNCHANGED <<envVars, benchmark_time, stats>>

\* main: random.seed(benchmark.seed); np.random.seed(benchmark.seed)
SetSeeds ==
    /\ pc = "seed"
    /\ steps' = Append(steps, "seed")
    /\ pc' = "run"
    /\ UNCHANGED <<args, disk, configs, json_filename, cfgVars, runVars,
                   REQUEST_LATENCY, run_no, loaded, results>>
    /\ UNCHANGED <<envVars, request_lens, aggVars>>

\* ---------------------------------------------------- BenchmarkRunner.run()
\* run() puts the requests on the queue in their order and starts
\* self.concurrency workers. The queue holds maxsize items: the requests that
\* fit are on it before any worker runs, and a put on a full queue suspends
\* run() until a worker has taken an item.
RunStart ==
    /\ pc = "run"
    /\ LET k == Min(Len(input_requests), maxsize) IN
       /\ queue' = SubSeq(input_requests, 1, k)
       /\ sent' = k
    /\ tasks' = [w \in 1..concurrency |-> Idle("loop")]
    /\ dispatched' = <<>>
    /\ steps' = Append(steps, "run")
    /\ pc' = "running"
    /\ UNCHANGED <<args, disk, configs, json_filename, data, num_prompts,
                   concurrency, input_requests, left, maxsize,
                   REQUEST_LATENCY, run_no, loaded, results>>
    /\ UNCHANGED <<envVars, request_lens, aggVars>>

\* run(): the suspended put resumes once the queue has room.
RunPut ==
    /\ pc = "running"
    /\ sent < Len(input_requests)
    /\ Len(queue) < maxsize
    /\ queue' = Append(queue, input_requests[sent + 1])
    /\ sent' = sent + 1
    /\ UNCHANGED <<args, disk, pc, configs, json_filename, data, num_prompts,
                   concurrency, input_requests, left, maxsize, tasks,
                   REQUEST_LATENCY, run_no, loaded, dispatched, results>>
    /\ UNCHANGED <<envVars, request_lens, aggVars, steps>>

\* run() returns once its puts are done and a worker has left its loop ("at
\* least one worker will exit"); the workers still waiting are dropped with
\* the event loop.
RunReturn ==
    /\ pc = "running"
    /\ sent = Len(input_requests)
    /\ \E w \in Workers : tasks[w].pc = "done"
    /\ pc' = "aggregate"
    /\ UNCHANGED <<args, disk, configs, json_filename, cfgVars, runVars,
                   REQUEST_LATENCY, run_no, loaded, results>>
    /\ UNCHANGED <<envVars, request_lens, aggVars, steps>>

\* ------------------------------------------------------------------ worker()
\* Worker w at the head of its loop, self.left being l and the queue q: it
\* leaves the loop, or takes the first item and calls send_request (suspended
\* in the network wait), or is suspended in queue.get() on the empty queue.
LoopFrom(w, l, q) ==
    IF ~WhileLeft(l)
    THEN /\ tasks' = [tasks EXCEPT ![w] = Idle("done")]
         /\ queue' = q
         /\ dispatched' = dispatched
    ELSE IF q # <<>>
    THEN /\ tasks' = [tasks EXCEPT ![w] = [pc |-> "exec", req |-> QueueItem(q)]]
         /\ queue' = QueueAfterGet(q)
         /\ dispatched' = Append(dispatched, QueueItem(q))
    ELSE /\ tasks' = [tasks EXCEPT ![w] = Idle("waiting")]
         /\ queue' = q
         /\ dispatched' = dispatched

\* The event loop runs worker w for the first time.
WorkerStart(w) ==
    /\ pc = "running"
    /\ tasks[w].pc = "loop"
    /\ LoopFrom(w, left, queue)
    /\ UNCHANGED <<args, disk, pc, configs, json_filename, data, num_prompts,
                   concurrency, input_requests, left, maxsize, sent,
                   REQUEST_LATENCY, run_no, loaded, results>>
    /\ UNCHANGED <<envVars, request_lens, aggVars, steps>>

\* queue.get() of the suspended worker w returns an item.
WorkerGet(w) ==
    /\ pc = "running"
    /\ tasks[w].pc = "waiting"
    /\ queue # <<>>
    /\ tasks' = [tasks EXCEPT ![w] = [pc |-> "exec", req |-> QueueItem(queue)]]
    /\ queue' = QueueAfterGet(queue)
    /\ dispatched' = Append(dispatched, QueueItem(queue))
    /\ UNCHANGED <<args, disk, pc, configs, json_filename, data, num_prompts,
                   concurrency, input_requests, left, maxsize, sent,
                   REQUEST_LATENCY, run_no, loaded, results>>
    /\ UNCHANGED <<envVars, request_lens, aggVars, steps>>

\* send_request of worker w returns: the observation is recorded, self.left is
\* decremented and the worker is back at the head of its loop.
SendRequestReturns(w) ==
    /\ pc = "running"
    /\ tasks[w].pc = "exec"
    /\ REQUEST_LATENCY' = Append(REQUEST_LATENCY, Observation(tasks[w].req))
    /\ left' = Decrement(left)
    /\ LoopFrom(w, Decrement(left), queue)
    /\ UNCHANGED <<args, disk, pc, configs, json_filename, data, num_prompts,
                   concurrency, input_requests, maxsize, sent,
                   run_no, loaded, results>>
    /\ UNCHANGED <<envVars, request_lens, aggVars, steps>>

\* send_request of worker w raises: the exception leaves worker(), which has
\* no handler, before self.left -= 1.
SendRequestRaises(w) ==
    /\ pc = "running"
    /\ tasks[w].pc = "exec"
    /\ tasks' = [tasks EXCEPT ![w] = Idle("failed")]
    /\ UNCHANGED <<args, disk, pc, configs, json_filename, cfgVars, sent,
                   REQUEST_LATENCY, run_no, loaded, dispatched, results>>
    /\ UNCHANGED <<envVars, request_lens, aggVars, steps>>

\* --------------------------------------------------------- main(), continued
\* main: the run is timed and the statistics are computed from
\* REQUEST_LATENCY, each assigned as soon as it is computed. A division by
\* zero raises ZeroDivisionError out of main.
Aggregate ==
    /\ pc = "aggregate"
    /\ steps' = Append(steps, "aggregate")
    /\ \E t \in clock :
         LET log == REQUEST_LATENCY
             first == [stats EXCEPT
                         !.throughput_request = Divide(num_prompts, t),
                         !.throughput_token = Divide(SumOutputLen(log), t),
                         !.avg_latency = Mean(Latencies(log))]
             second == [first EXCEPT
                         !.avg_per_token_latency = Mean(PerTokenLatencies(log))]
             third == [second EXCEPT
                         !.avg_per_output_token_latency =
                             Mean(PerOutputTokenLatencies(log))]
         IN  /\ benchmark_time' = t
             /\ IF Divide(num_prompts, t) = Raised
                THEN /\ stats' = stats
                     /\ error' = <<"ZeroDivisionError">>
                     /\ pc' = "crashed"
                ELSE IF AnyRaised(PerTokenLatencies(log))
                THEN /\ stats' = first
                     /\ error' = <<"ZeroDivisionError">>
                     /\ pc' = "crashed"
                ELSE IF AnyRaised(PerOutputTokenLatencies(log))
                THEN /\ stats' = second
                     /\ error' = <<"ZeroDivisionError">>
                     /\ pc' = "crashed"
                ELSE /\ stats' = third
                     /\ error' = error
                     /\ pc' = "write"
    /\ UNCHANGED <<args, disk, configs, json_filename, cfgVars, runVars,
                   REQUEST_LATENCY, run_no, loaded, results>>
    /\ UNCHANGED <<envVars, request_lens>>

\* main: benchmark.write_result(), then back to the loop condition.
WriteResult ==
    /\ pc = "write"
    /\ results' = results + 1
    /\ steps' = Append(steps, "write")
    /\ pc' = "loop"
    /\ UNCHANGED <<args, disk, configs, json_filename, cfgVars, runVars,
                   REQUEST_LATENCY, run_no, loaded>>
    /\ UNCHANGED <<envVars, request_lens, aggVars>>

\* -------------------------------------------------------------------- Next
WorkerIds == 1..MaxConcurrency

Next ==
    \/ MainArgs
    \/ MainExit
    \/ ReadJson
    \/ SetSeeds
    \/ RunStart
    \/ RunPut
    \/ RunReturn
    \/ \E w \in Workers : WorkerStart(w)
    \/ \E w \in Workers : WorkerGet(w)
    \/ \E w \in Workers : SendRequestReturns(w)
    \/ \E w \in Workers : SendRequestRaises(w)
    \/ Aggregate
    \/ WriteResult

Spec == Init /\ [][Next]_vars

DataSpec == InitData /\ [][Next]_vars

\* The runs of one config file (--file, with or without --inf): every
\* num_prompt and concurrency a config can ask for, one run or repeated runs.
InitFile == Init /\ args.folder = <<>>

\* Every step that does not need an executor failure is taken eventually: the
\* event loop runs every ready coroutine, and (for the termination claim) every
\* send_request call returns.
FairSpec ==
    /\ InitFile /\ [][Next]_vars
    /\ WF_vars(MainArgs) /\ WF_vars(MainExit) /\ WF_vars(ReadJson)
    /\ WF_vars(SetSeeds) /\ WF_vars(RunStart) /\ WF_vars(RunPut)
    /\ WF_vars(RunReturn) /\ WF_vars(Aggregate) /\ WF_vars(WriteResult)
    /\ \A w \in WorkerIds :
         /\ WF_vars(w \in Workers /\ WorkerStart(w))
         /\ WF_vars(w \in Workers /\ WorkerGet(w))
         /\ WF_vars(w \in Workers /\ SendRequestReturns(w))

\* ------------------------------------------------------------------ claims
Count(seq, x) == Cardinality({i \in DOMAIN seq : seq[i] = x})

\* The observations that run n appended to REQUEST_LATENCY.
ObservationsOf(n) == {i \in DOMAIN REQUEST_LATENCY : REQUEST_LATENCY[i].run = n}

\* run() of the current config has returned.
RunReturned == pc \in {"aggregate", "write"}

\* The effective concurrency of the loaded config.
EffectiveConcurrency == Min(data.concurrency, data.num_prompt)

\* C1: while a run is under way no request has been handed to send_request
\* twice, and when run() has returned every request 0..num_prompts-1 has been
\* handed to send_request exactly once.
C1_EveryRequestExactlyOnce ==
    /\ pc = "running" =>
         \A r \in 0..(num_prompts - 1) : Count(dispatched, r) <= 1
    /\ RunReturned =>
         /\ Len(dispatched) = num_prompts
         /\ \A r \in 0..(num_prompts - 1) : Count(dispatched, r) = 1

\* A run of several requests over several workers has returned.
C1_Witness ==
    /\ pc = "aggregate"
    /\ num_prompts >= 2
    /\ concurrency >= 2
    /\ Len(dispatched) = num_prompts

\* C2: when run() has returned, self.left is 0, every request has been put on
\* the queue, the queue is empty and no request is in flight; and run() cannot
\* return while self.left is above 0, whether or not the queue is empty.
C2_ReturnsOnlyWhenAllDone ==
    /\ RunReturned =>
         /\ left = 0
         /\ sent = Len(input_requests)
         /\ queue = <<>>
         /\ InFlight = {}
    /\ (pc = "running" /\ left > 0) => ~ENABLED RunReturn

\* run() has returned while another worker is still suspended on the empty
\* queue.
C2_Witness ==
    /\ pc = "aggregate"
    /\ left = 0
    /\ \E w \in Workers : tasks[w].pc = "waiting"
    /\ \E w \in Workers : tasks[w].pc = "done"

\* C3: under fair scheduling, a run in which no send_request call raises
\* returns, for every configured concurrency and num_prompt, and when it has
\* returned exactly num_prompts executions of this run have completed.
C3_RunTerminates ==
    /\ (pc \in {"run", "running"}) ~>
         (pc = "aggregate" \/ \E w \in Workers : tasks[w].pc = "failed")
    /\ [](pc = "aggregate" => Cardinality(ObservationsOf(run_no)) = num_prompts)

\* A run whose config asked for fewer workers than requests has returned.
C3_Witness ==
    /\ pc = "aggregate"
    /\ data.concurrency < data.num_prompt
    /\ Cardinality(ObservationsOf(run_no)) = num_prompts

\* C4: a request whose send_request call failed counts as completed: during a
\* run self.left is num_prompts minus the number of requests whose execution
\* has ended, by a return or by a failure.
C4_FailedRequestCounts ==
    pc = "running" =>
        left = num_prompts - (Len(dispatched) - Cardinality(InFlight))

\* C5: every run starts from an empty log, and the log the statistics are
\* computed from holds exactly the num_prompts observations of that run.
C5_LogFreshEveryRun ==
    /\ pc \in {"seed", "run"} => REQUEST_LATENCY = <<>>
    /\ pc = "aggregate" =>
         /\ Len(REQUEST_LATENCY) = num_prompts
         /\ \A i \in DOMAIN REQUEST_LATENCY : REQUEST_LATENCY[i].run = run_no

\* C6: during a run the number of requests in flight is at most the effective
\* concurrency min(configured concurrency, num_prompt).
C6_InFlightBounded ==
    pc = "running" => Cardinality(InFlight) <= EffectiveConcurrency

\* As many requests in flight as the effective concurrency, with two or more
\* workers.
C6_Witness ==
    /\ pc = "running"
    /\ concurrency >= 2
    /\ num_prompts >= concurrency
    /\ Cardinality(InFlight) = EffectiveConcurrency

\* C7: once a config is loaded (read_json has returned) self.concurrency is
\* min(configured concurrency, num_prompt), it does not exceed the number of requests, run() starts that
\* many workers, and the run records exactly num_prompts observations.
C7_ConcurrencyClamped ==
    /\ pc # "crashed" =>
         /\ concurrency = EffectiveConcurrency
         /\ concurrency <= Len(input_requests)
    /\ pc = "running" => Cardinality(Workers) = EffectiveConcurrency
    /\ RunReturned => Cardinality(ObservationsOf(run_no)) = data.num_prompt

\* A config that asked for more workers than requests has been run.
C7_Witness ==
    /\ pc = "aggregate"
    /\ data.num_prompt >= 2
    /\ data.concurrency > data.num_prompt
    /\ concurrency = data.num_prompt
    /\ Cardinality(ObservationsOf(run_no)) = data.num_prompt

\* C8: over a folder of config files (not infinite), when main has stopped
\* every loadable config file of the folder has been loaded and run, whether
\* or not another file of the folder failed to load.
C8_OtherConfigsStillRun ==
    (/\ ~args.inf
     /\ args.file = <<>>
     /\ args.folder # <<>>
     /\ pc \in {"exit", "crashed"})
    => \A f \in Range(CollectConfigs(<<>>)) :
           disk[f] = "good" => f \in Range(loaded)

\* C9: in finite mode the configs loaded so far and the pending configs are
\* disjoint and together are the collected configs, no config is loaded twice,
\* and when the loop has ended the pending list is empty and every one of the
\* k collected configs has been run once, with k results written.
C9_EachConfigOnce ==
    (~args.inf /\ pc # "start") =>
        LET all == CollectConfigs(<<>>) IN
        /\ \A f \in Range(all) : Count(loaded, f) + Count(configs, f) = 1
        /\ Len(loaded) + Len(configs) = Len(all)
        /\ run_no = Len(loaded)
        /\ pc = "exit" =>
             /\ configs = <<>>
             /\ Len(loaded) = Len(all)
             /\ results = Len(all)
        /\ (pc = "loop" /\ configs # <<>>) => ~ENABLED MainExit

\* The loop has ended after running as many configs as a folder can hold.
C9_Witness ==
    /\ ~args.inf
    /\ pc = "exit"
    /\ Len(loaded) = MaxConfigs
    /\ results = MaxConfigs

\* C10: in infinite mode with one collected config, the pending list always
\* holds that config, every run loads it, main never leaves the loop, and
\* after a written result the loop reads the same config again.
C10_InfiniteRepeats ==
    (args.inf /\ pc # "start" /\ Len(CollectConfigs(<<>>)) = 1) =>
        LET all == CollectConfigs(<<>>) IN
        /\ configs = all
        /\ \A i \in DOMAIN loaded : loaded[i] = all[1]
        /\ pc # "exit"
        /\ ~ENABLED MainExit
        /\ (pc = "loop" /\ Explored) => ENABLED ReadJson
        /\ (pc = "loop" /\ results >= 1) => ~LoadRaises(all[1])

\* A later run of the infinite benchmark has started after a written result.
C10_Witness ==
    /\ args.inf
    /\ Len(CollectConfigs(<<>>)) = 1
    /\ pc = "seed"
    /\ run_no >= 2
    /\ results = run_no - 1
    /\ configs = CollectConfigs(<<>>)

\* Both or neither of --file and --folder are given.
UsageError == (args.file = <<>>) <=> (args.folder = <<>>)

\* C11: when both or neither of --file and --folder are given, or --file names
\* a file that is not *.json, no config is ever pending, read_json is never
\* called, no run is executed and no result is written: main goes from its
\* argument dispatch straight to its end.
C11_UsageErrorRunsNothing ==
    (\/ UsageError
     \/ (args.file # <<>> /\ args.folder = <<>> /\ ~EndsWithJson(args.file[1])))
    => /\ configs = <<>>
       /\ loaded = <<>>
       /\ run_no = 0
       /\ results = 0
       /\ REQUEST_LATENCY = <<>>
       /\ pc \in {"start", "loop", "exit"}

\* main has ended with --file and --folder both given, the file and a file of
\* the folder being loadable configs.
C11_Witness ==
    /\ pc = "exit"
    /\ args.file # <<>>
    /\ args.folder # <<>>
    /\ disk[args.file[1]] = "good"
    /\ \E f \in Range(args.folder[1]) : disk[f] = "good"

\* No worker of the run has run yet.
NoWorkerStarted == \A w \in Workers : tasks[w].pc = "loop"

C16_DispatchIsFifo ==
    pc \in {"running", "aggregate", "write"} =>
        /\ Len(dispatched) <= Len(input_requests)
        /\ dispatched = SubSeq(input_requests, 1, Len(dispatched))

\* The requests of the current run, in the order of their observations.
Completed ==
    LET own == SelectSeq(REQUEST_LATENCY, LAMBDA o : o.run = run_no)
    IN  [i \in DOMAIN own |-> own[i].req]

\* A run of two or more workers has returned with its observations in another
\* order than the requests were dispatched in.
C16_Witness ==
    /\ pc = "aggregate"
    /\ concurrency >= 2
    /\ Len(Completed) = Len(dispatched)
    /\ Completed # dispatched

\* No send_request call of the run has raised.
NoFailure == \A w \in Workers : tasks[w].pc # "failed"

\* C17: in a run without a failed send_request, at every suspension point
\* self.left is num_prompts minus the number of returned send_request calls,
\* which is the number of observations of this run, and it is not negative.
C17_NoLostUpdate ==
    (pc \in {"running", "aggregate", "write"} /\ NoFailure) =>
        /\ left = num_prompts - (Len(dispatched) - Cardinality(InFlight))
        /\ left = num_prompts - Cardinality(ObservationsOf(run_no))
        /\ left >= 0

\* One request has returned while another is in flight.
C17_Witness ==
    /\ pc = "running"
    /\ NoFailure
    /\ left > 0
    /\ left < num_prompts
    /\ InFlight # {}
    /\ Cardinality(ObservationsOf(run_no)) >= 1

\* C18: a worker has left its loop only when self.left is 0; once self.left
\* is 0 some worker has left its loop and run() can return; a worker that is
\* suspended on the queue then stays suspended (the queue is empty and nothing
\* is left to be put), and no request is in flight.
C18_OneWorkerExits ==
    pc = "running" =>
        /\ \A w \in Workers : tasks[w].pc = "done" => left = 0
        /\ left = 0 =>
             /\ \E w \in Workers : tasks[w].pc = "done"
             /\ ENABLED RunReturn
             /\ queue = <<>>
             /\ sent = Len(input_requests)
             /\ InFlight = {}
             /\ \A w \in Workers : ~ENABLED WorkerGet(w)
             /\ \A w \in Workers : tasks[w].pc \in {"done", "waiting", "loop"}

\* All requests are done: one worker has left its loop and another is
\* suspended on the empty queue.
C18_Witness ==
    /\ pc = "running"
    /\ left = 0
    /\ \E w \in Workers : tasks[w].pc = "done"
    /\ \E w \in Workers : tasks[w].pc = "waiting"

\* C19: in infinite mode every read_json call loads the first collected
\* config, however many configs are pending: no other config is ever loaded.
C19_InfiniteRunsFirstOnly ==
    args.inf =>
        LET all == CollectConfigs(<<>>) IN
        /\ \A i \in DOMAIN loaded : loaded[i] = all[1]
        /\ \A i \in DOMAIN all : i > 1 => all[i] \notin Range(loaded)

\* The infinite benchmark over a folder of several configs has started a
\* second run.
C19_Witness ==
    /\ args.inf
    /\ Len(configs) >= 2
    /\ run_no >= 2
    /\ results >= 1
    /\ pc = "seed"

\* The names of the five statistics.
StatNames == {"throughput_request", "throughput_token", "avg_latency",
              "avg_per_token_latency", "avg_per_output_token_latency"}

\* A statistic that is a number: computed, and not a quotient by zero.
Defined(q) == q # None /\ q # Raised /\ q[2] # 0

\* The run's result has been computed in full or written.
Reported == pc = "write" \/ results >= run_no

\* An observation in the log makes a per-token ratio undefined.
ZeroLenObserved ==
    \E i \in DOMAIN REQUEST_LATENCY :
        \/ REQUEST_LATENCY[i].output_len = 0
        \/ REQUEST_LATENCY[i].prompt_len + REQUEST_LATENCY[i].output_len = 0

\* C12: a run whose elapsed time is zero, or that observed a request with
\* output_len = 0 or prompt_len + output_len = 0, ends in ZeroDivisionError and
\* writes no result; every statistic of a result that is written is a number.
C12_NoUndefinedStatistic ==
    /\ (run_no >= 1 /\ Reported) =>
          /\ benchmark_time # 0
          /\ ~ZeroLenObserved
          /\ \A n \in StatNames : Defined(stats[n])
    /\ error = <<"ZeroDivisionError">> =>
          /\ pc = "crashed"
          /\ results = run_no - 1
          /\ benchmark_time = 0 \/ ZeroLenObserved

\* C12 witness: a run that took time and observed a request without output
\* tokens has ended in ZeroDivisionError with nothing written.
C12_Witness ==
    /\ pc = "crashed"
    /\ error = <<"ZeroDivisionError">>
    /\ benchmark_time # 0
    /\ \E i \in DOMAIN REQUEST_LATENCY : REQUEST_LATENCY[i].output_len = 0
    /\ results = 0

\* C13: the statistics of a run are num_prompt / elapsed requests per second
\* and (the output_len of the observations of that run, summed) / elapsed
\* tokens per second.
C13_ThroughputOfThisRun ==
    pc = "write" =>
        LET own == SelectSeq(REQUEST_LATENCY, LAMBDA o : o.run = run_no)
        IN  /\ stats.throughput_request = <<data.num_prompt, benchmark_time>>
            /\ stats.throughput_token = <<SumOutputLen(own), benchmark_time>>

\* The order of the steps of a run.
StepOrder == <<"seed", "sample", "run", "aggregate", "write">>

\* C14: the steps taken for the current config are, in order, seed, sample the
\* requests, run, aggregate, write: the requests are never sampled before the
\* seeds are set.
C14_StepsInOrder ==
    /\ Len(steps) <= Len(StepOrder)
    /\ steps = SubSeq(StepOrder, 1, Len(steps))
====
